---- MODULE Spec2Model ----
(***************************************************************************)
(* Model of the persistence layer, the ledger handlers and the metrics of  *)
(* src/app.py (a Streamlit personal-finance application backed by three    *)
(* CSV files).                                                             *)
(*                                                                         *)
(* Representation.                                                         *)
(*  - A CSV file is the sequence of its data rows; a row is a record of    *)
(*    the TEXT of its cells.  load_data parses the text (pandas.read_csv)  *)
(*    and save_data formats a DataFrame back to text (DataFrame.to_csv).   *)
(*  - Money is counted in cents (an integer).  The text of a cent-valued   *)
(*    float and its parse are taken to be exact; binary rounding of the    *)
(*    float arithmetic is outside this model.                              *)
(*  - The text 'YYYY-MM-DD' of a date is the tuple <<YYYY, MM, DD>> of its *)
(*    three numeric fields; an empty cell of the date column is <<>>.      *)
(*  - header maps each file to the tuple of its column names, <<>> when    *)
(*    the file does not exist; sess holds what each browser session has    *)
(*    read and not yet written.                                            *)
(*  - Python positions are 0-based and are kept 0-based in the arguments   *)
(*    of the handlers; row i of a DataFrame is element i+1 of a sequence.  *)
(***************************************************************************)
EXTENDS Integers, Sequences, FiniteSets, TLC

VARIABLES entradas, saidas, dividas, last, header, sess

vars == <<entradas, saidas, dividas, last, header, sess>>

(***************************************************************************)
(* Bounds of the model.                                                    *)
(***************************************************************************)
MaxRecords == 2      \* total number of rows over the three files
MaxValor == 2        \* largest amount, in cents, typed into a form

(***************************************************************************)
(* Values.                                                                 *)
(***************************************************************************)
\* the float nan pandas uses for a missing cell of an object column
NaN == "float(nan)"

\* pandas._libs.parsers STR_NA_VALUES: cell texts read_csv turns into nan
NaValues == {"", "#N/A", "N/A", "NA", "NULL", "NaN", "n/a", "nan", "null"}

\* the missing datetime (pandas.NaT); its .dt.month / .dt.year equal nothing
NaT == [year |-> 0, month |-> 0, day |-> 0]

\* columns whose cells are free or enumerated text
StrCols == {"tipo", "parceiro", "categoria", "status", "credor", "descricao"}

\* choices of the selectboxes of the three forms, written without accents
\* (two of each are enough to tell rows apart)
Tipos == {"Salario", "Renda Extra"}
Parceiros == {"Parceiro A", "Parceiro B"}
Categorias == {"Alimentacao", "Moradia"}
Statuses == {"Em acordo", "Negativada"}

\* values a st.date_input can return
Datas == {[year |-> 2024, month |-> 3, day |-> 5],
          [year |-> 2025, month |-> 4, day |-> 5]}

\* texts typed into the st.text_input "Credor"
Credores == {"", "NA", "Banco"}

\* texts typed into the "Descricao" inputs
Descricoes == {"", "Banco"}

\* the sidebar's month and year selectors
Meses == {3, 4}
Anos == {2024, 2025}

(***************************************************************************)
(* Conversions.                                                            *)
(***************************************************************************)
\* date.strftime('%Y-%m-%d')
strftime(d) == <<d.year, d.month, d.day>>

\* does pandas.to_datetime accept this cell of a date column
Parsable(t) == Len(t) = 0
               \/ (Len(t) = 3 /\ t[2] \in 1..12 /\ t[3] \in 1..31)

\* pandas.to_datetime of one cell (errors='raise' is decided by Parsable)
to_datetime(t) == IF Len(t) = 3
                    THEN [year |-> t[1], month |-> t[2], day |-> t[3]]
                    ELSE NaT

\* read_csv of one cell of column c: default na_values, no parse_dates
read_cell(c, t) == IF c \in StrCols /\ t \in NaValues THEN NaN ELSE t

\* to_csv of one cell of column c
write_cell(c, v) == IF c \in StrCols /\ v = NaN THEN "" ELSE v

\* load_data: the DataFrame read from a file
load_data(file) ==
  [i \in 1..Len(file) |-> [c \in DOMAIN file[i] |-> read_cell(c, file[i][c])]]

\* save_data: the file written from a DataFrame
save_data(df) ==
  [i \in 1..Len(df) |-> [c \in DOMAIN df[i] |-> write_cell(c, df[i][c])]]

(***************************************************************************)
(* Ledger functions: each maps the file it finds to the file it leaves.    *)
(***************************************************************************)
add_entrada(file, data, tipo, parceiro, valor, descricao) ==
  LET df == load_data(file)
      nova_entrada == [data |-> strftime(data), tipo |-> tipo,
                       parceiro |-> parceiro, valor |-> valor,
                       descricao |-> descricao]
  IN save_data(Append(df, nova_entrada))

add_saida(file, data, categoria, valor, descricao) ==
  LET df == load_data(file)
      nova_saida == [data |-> strftime(data), categoria |-> categoria,
                     valor |-> valor, descricao |-> descricao]
  IN save_data(Append(df, nova_saida))

add_divida(file, credor, valor_total, valor_pago, status, data_inicio, descricao) ==
  LET df == load_data(file)
      nova_divida == [credor |-> credor, valor_total |-> valor_total,
                      valor_pago |-> valor_pago, status |-> status,
                      data_inicio |-> strftime(data_inicio),
                      descricao |-> descricao]
  IN save_data(Append(df, nova_divida))

\* is index a row label of df (the RangeIndex 0..len(df)-1)
HasLabel(df, index) == index \in 0..(Len(df) - 1)

\* drop with the position ignored: the last row is removed
drop_ultimo(df, index) == SubSeq(df, 1, Len(df) - 1)

\* df.drop(index).reset_index(drop=True), for a label of df
drop(df, index) ==
  [j \in 1..(Len(df) - 1) |-> IF j < index + 1 THEN df[j] ELSE df[j + 1]]

\* body shared by delete_divida, delete_entrada and delete_saida; drop
\* raises KeyError for an index that is not a label
delete_row(file, index) ==
  LET df == load_data(file)
  IN IF index < Len(df)
       THEN IF HasLabel(df, index)
              THEN [file |-> save_data(drop(df, index)), outcome |-> "ok"]
              ELSE [file |-> file, outcome |-> "KeyError"]
       ELSE [file |-> file, outcome |-> "ok"]

delete_divida(file, index) == delete_row(file, index)

delete_entrada(file, index) == delete_row(file, index)

delete_saida(file, index) == delete_row(file, index)

\* update_divida adding its argument to the stored valor_pago
update_divida_soma(file, index, valor_pago) ==
  LET df == load_data(file)
  IN IF index < Len(df)
       THEN save_data([df EXCEPT ![index + 1].valor_pago = @ + valor_pago])
       ELSE file

\* update_divida, for the non-negative positions the payment form passes
update_divida(file, index, valor_pago) ==
  LET df == load_data(file)
  IN IF index < Len(df)
       THEN save_data([df EXCEPT ![index + 1].valor_pago = valor_pago])
       ELSE file

(***************************************************************************)
(* Metrics.                                                                *)
(***************************************************************************)
\* pd.to_datetime(df[date_column]) raises on a cell it cannot parse
DateRaises(df, date_column) ==
  df # <<>> /\ \E i \in 1..Len(df) : ~Parsable(df[i][date_column])

InMonth(r, mes, ano, date_column) ==
  /\ to_datetime(r[date_column]).month = mes
  /\ to_datetime(r[date_column]).year = ano

\* filter_by_month comparing the month only
filter_by_month_mes(df, mes, ano, date_column) ==
  IF df = <<>>
    THEN df
    ELSE SelectSeq(df, LAMBDA r : to_datetime(r[date_column]).month = mes)

\* filter_by_month, when it does not raise
filter_by_month(df, mes, ano, date_column) ==
  IF df = <<>>
    THEN df
    ELSE SelectSeq(df, LAMBDA r : InMonth(r, mes, ano, date_column))

\* Series.sum() of a numeric column
RECURSIVE ColSum(_, _)
ColSum(df, col) ==
  IF df = <<>> THEN 0 ELSE df[1][col] + ColSum(Tail(df), col)

\* the f-string f"{row['tipo']} - {row['parceiro']}"
SourceKey(row) == <<row.tipo, " - ", row.parceiro>>

\* the iterrows loop with a new key put before the keys seen so far
RECURSIVE PorTipo_inverso(_, _)
PorTipo_inverso(df, acc) ==
  IF df = <<>>
    THEN acc
    ELSE LET key == SourceKey(df[1])
             hit == {i \in 1..Len(acc) : acc[i][1] = key}
         IN IF hit = {}
              THEN PorTipo_inverso(Tail(df), <<<<key, 0 + df[1].valor>>>> \o acc)
              ELSE LET i == CHOOSE i \in hit : TRUE
                   IN PorTipo_inverso(Tail(df),
                        [acc EXCEPT ![i] = <<key, acc[i][2] + df[1].valor>>])

\* the dict built by the iterrows loop, as its (key, value) items in
\* insertion order
RECURSIVE PorTipo(_, _)
PorTipo(df, acc) ==
  IF df = <<>>
    THEN acc
    ELSE LET key == SourceKey(df[1])
             hit == {i \in 1..Len(acc) : acc[i][1] = key}
         IN IF hit = {}
              THEN PorTipo(Tail(df), Append(acc, <<key, 0 + df[1].valor>>))
              ELSE LET i == CHOOSE i \in hit : TRUE
                   IN PorTipo(Tail(df),
                              [acc EXCEPT ![i] = <<key, acc[i][2] + df[1].valor>>])

\* a mapping over every category of the form, zero where none is stored
PorCategoria_zeros(df) ==
  [c \in Categorias |->
     ColSum(SelectSeq(df, LAMBDA r : r.categoria = c), "valor")]

\* groupby('categoria')['valor'].sum().to_dict()
PorCategoria(df) ==
  [c \in {df[i].categoria : i \in 1..Len(df)} |->
     ColSum(SelectSeq(df, LAMBDA r : r.categoria = c), "valor")]
\* SaldoSum without the subtraction of valor_pago
RECURSIVE SaldoSum_total(_)
SaldoSum_total(df) ==
  IF df = <<>> THEN 0 ELSE df[1].valor_total + SaldoSum_total(Tail(df))

\* (valor_total - valor_pago).sum() over the rows of a status
RECURSIVE SaldoSum(_)
SaldoSum(df) ==
  IF df = <<>>
    THEN 0
    ELSE (df[1].valor_total - df[1].valor_pago) + SaldoSum(Tail(df))

\* does calcular_metricas raise on the stored files
MetricasRaises(fe, fs) ==
  DateRaises(load_data(fe), "data") \/ DateRaises(load_data(fs), "data")

\* calcular_metricas with the debts filtered by the month of data_inicio
calcular_metricas_dividas_mes(fe, fs, fd, mes, ano) ==
  LET entradas_df == load_data(fe)
      saidas_df == load_data(fs)
      dividas_df == filter_by_month(load_data(fd), mes, ano, "data_inicio")
      entradas_mes == filter_by_month(entradas_df, mes, ano, "data")
      saidas_mes == filter_by_month(saidas_df, mes, ano, "data")
      total_entradas == IF entradas_mes # <<>> THEN ColSum(entradas_mes, "valor") ELSE 0
      total_saidas == IF saidas_mes # <<>> THEN ColSum(saidas_mes, "valor") ELSE 0
      dividas_acordo == SelectSeq(dividas_df, LAMBDA r : r.status = "Em acordo")
      dividas_negativadas == SelectSeq(dividas_df, LAMBDA r : r.status = "Negativada")
  IN [saldo |-> total_entradas - total_saidas,
      total_entradas |-> total_entradas,
      total_saidas |-> total_saidas,
      entradas_por_tipo |-> IF entradas_mes # <<>> THEN PorTipo(entradas_mes, <<>>) ELSE <<>>,
      saidas_por_categoria |-> IF saidas_mes # <<>> THEN PorCategoria(saidas_mes) ELSE <<>>,
      total_dividas_acordo |-> IF dividas_acordo # <<>> THEN SaldoSum(dividas_acordo) ELSE 0,
      qtd_dividas_acordo |-> Len(dividas_acordo),
      total_dividas_negativadas |-> IF dividas_negativadas # <<>> THEN SaldoSum(dividas_negativadas) ELSE 0,
      qtd_dividas_negativadas |-> Len(dividas_negativadas)]

\* calcular_metricas, when it does not raise
calcular_metricas(fe, fs, fd, mes, ano) ==
  LET entradas_df == load_data(fe)
      saidas_df == load_data(fs)
      dividas_df == load_data(fd)
      entradas_mes == filter_by_month(entradas_df, mes, ano, "data")
      saidas_mes == filter_by_month(saidas_df, mes, ano, "data")
      total_entradas == IF entradas_mes # <<>> THEN ColSum(entradas_mes, "valor") ELSE 0
      total_saidas == IF saidas_mes # <<>> THEN ColSum(saidas_mes, "valor") ELSE 0
      dividas_acordo == SelectSeq(dividas_df, LAMBDA r : r.status = "Em acordo")
      dividas_negativadas == SelectSeq(dividas_df, LAMBDA r : r.status = "Negativada")
  IN [saldo |-> total_entradas - total_saidas,
      total_entradas |-> total_entradas,
      total_saidas |-> total_saidas,
      entradas_por_tipo |-> IF entradas_mes # <<>> THEN PorTipo(entradas_mes, <<>>) ELSE <<>>,
      saidas_por_categoria |-> IF saidas_mes # <<>> THEN PorCategoria(saidas_mes) ELSE <<>>,
      total_dividas_acordo |-> IF dividas_acordo # <<>> THEN SaldoSum(dividas_acordo) ELSE 0,
      qtd_dividas_acordo |-> Len(dividas_acordo),
      total_dividas_negativadas |-> IF dividas_negativadas # <<>> THEN SaldoSum(dividas_negativadas) ELSE 0,
      qtd_dividas_negativadas |-> Len(dividas_negativadas)]

(***************************************************************************)
(* Forms.  A submitted form is a sample form with at most one widget       *)
(* changed, so that every value of every widget occurs.                    *)
(***************************************************************************)
\* number of fields in which two forms differ
Differ(f, g) == Cardinality({k \in DOMAIN f : f[k] # g[k]})

SampleData == [year |-> 2024, month |-> 3, day |-> 5]

BaseEntrada == [data |-> SampleData, tipo |-> "Salario",
                parceiro |-> "Parceiro A", valor |-> 1, descricao |-> "Banco"]

BaseSaida == [data |-> SampleData, categoria |-> "Alimentacao",
              valor |-> 1, descricao |-> "Banco"]

BaseDivida == [credor |-> "Banco", valor_total |-> 1, valor_pago |-> 0,
               status |-> "Em acordo", data_inicio |-> SampleData,
               descricao |-> "Banco"]

\* form_entrada: number_input has min_value=0.0
EntradaForms ==
  {f \in [data : Datas, tipo : Tipos, parceiro : Parceiros,
          valor : 0..MaxValor, descricao : Descricoes] : Differ(f, BaseEntrada) <= 1}

\* form_saida
SaidaForms ==
  {f \in [data : Datas, categoria : Categorias,
          valor : 0..MaxValor, descricao : Descricoes] : Differ(f, BaseSaida) <= 1}

\* form_divida
DividaForms ==
  {f \in [credor : Credores, valor_total : 0..MaxValor, valor_pago : 0..MaxValor,
          status : Statuses, data_inicio : Datas, descricao : Descricoes] :
     Differ(f, BaseDivida) <= 1}

\* positions passed to a delete function: the row labels of the file, the
\* first position past its end (a stale label) and one negative position
Indices(file) == (0 - 1)..Len(file)

\* amounts typed into the payment form (min_value is one cent)
Pagamentos == 1..MaxValor

(***************************************************************************)
(* State machine.                                                          *)
(***************************************************************************)
NumRecords == Len(entradas) + Len(saidas) + Len(dividas)

\* the browser sessions
Callers == {"A", "B"}

\* a session that holds nothing
Idle == [pc |-> "idle"]

\* the columns init_csv_files gives each file
Schema ==
  [entradas |-> <<"data", "tipo", "parceiro", "valor", "descricao">>,
   saidas |-> <<"data", "categoria", "valor", "descricao">>,
   dividas |-> <<"credor", "valor_total", "valor_pago", "status",
                 "data_inicio", "descricao">>]

Call(op, arg, outcome, result) ==
  [op |-> op, arg |-> arg, outcome |-> outcome, result |-> result]

\* main: init_csv_files on an empty data directory
Init ==
  /\ entradas = <<>>
  /\ saidas = <<>>
  /\ dividas = <<>>
  /\ last = Call("main", <<>>, "ok", <<>>)
  /\ header = Schema
  /\ sess = [c \in Callers |-> Idle]

\* render_entradas: form_entrada is submitted
SubmitEntrada(f) ==
  /\ IF f.valor > 0
       THEN /\ NumRecords < MaxRecords
            /\ entradas' = add_entrada(entradas, f.data, f.tipo, f.parceiro,
                                       f.valor, f.descricao)
            /\ last' = Call("add_entrada", f, "ok", <<>>)
       ELSE /\ entradas' = entradas
            /\ last' = Call("add_entrada", f, "rejected", <<>>)
  /\ UNCHANGED <<saidas, dividas, header, sess>>

\* render_saidas: form_saida is submitted
SubmitSaida(f) ==
  /\ IF f.valor > 0
       THEN /\ NumRecords < MaxRecords
            /\ saidas' = add_saida(saidas, f.data, f.categoria, f.valor,
                                   f.descricao)
            /\ last' = Call("add_saida", f, "ok", <<>>)
       ELSE /\ saidas' = saidas
            /\ last' = Call("add_saida", f, "rejected", <<>>)
  /\ UNCHANGED <<entradas, dividas, header, sess>>

\* form_divida without the check of valor_pago against valor_total
SubmitDividaSemTeto(f) ==
  /\ IF f.valor_total > 0 /\ f.credor # ""
       THEN /\ NumRecords < MaxRecords
            /\ dividas' = add_divida(dividas, f.credor, f.valor_total,
                                     f.valor_pago, f.status,
                                     f.data_inicio, f.descricao)
            /\ last' = Call("add_divida", f, "ok", <<>>)
       ELSE /\ dividas' = dividas
            /\ last' = Call("add_divida", f, "rejected", <<>>)
  /\ UNCHANGED <<entradas, saidas, header, sess>>

\* render_dividas: form_divida is submitted
SubmitDivida(f) ==
  /\ IF f.valor_total > 0 /\ f.credor # ""
       THEN IF f.valor_pago <= f.valor_total
              THEN /\ NumRecords < MaxRecords
                   /\ dividas' = add_divida(dividas, f.credor, f.valor_total,
                                            f.valor_pago, f.status,
                                            f.data_inicio, f.descricao)
                   /\ last' = Call("add_divida", f, "ok", <<>>)
              ELSE /\ dividas' = dividas
                   /\ last' = Call("add_divida", f, "rejected", <<>>)
       ELSE /\ dividas' = dividas
            /\ last' = Call("add_divida", f, "rejected", <<>>)
  /\ UNCHANGED <<entradas, saidas, header, sess>>

\* delete_entrada(index) is called
DeleteEntrada(index) ==
  LET r == delete_entrada(entradas, index)
  IN /\ entradas' = r.file
     /\ last' = Call("delete_entrada", index, r.outcome, <<>>)
     /\ UNCHANGED <<saidas, dividas, header, sess>>

\* delete_saida(index) is called
DeleteSaida(index) ==
  LET r == delete_saida(saidas, index)
  IN /\ saidas' = r.file
     /\ last' = Call("delete_saida", index, r.outcome, <<>>)
     /\ UNCHANGED <<entradas, dividas, header, sess>>

\* delete_divida(index) is called
DeleteDivida(index) ==
  LET r == delete_divida(dividas, index)
  IN /\ dividas' = r.file
     /\ last' = Call("delete_divida", index, r.outcome, <<>>)
     /\ UNCHANGED <<entradas, saidas, header, sess>>

\* the payment form without max_value on its number_input
ConfirmarPagamentoSemTeto(idx, valor_adicional) ==
  LET df == load_data(dividas)
      row == df[idx + 1]
  IN /\ HasLabel(df, idx)
     /\ IF valor_adicional >= 1
          THEN /\ dividas' = update_divida(dividas, idx,
                                           row.valor_pago + valor_adicional)
               /\ last' = Call("update_divida", <<idx, valor_adicional>>, "ok", <<>>)
          ELSE /\ dividas' = dividas
               /\ last' = Call("update_divida", <<idx, valor_adicional>>,
                               "rejected", <<>>)
     /\ UNCHANGED <<entradas, saidas, header, sess>>

\* render_dividas: the payment form of the listed row idx is confirmed; its
\* number_input accepts only min_value (one cent) to max_value (the row's
\* saldo_devedor)
ConfirmarPagamento(idx, valor_adicional) ==
  LET df == load_data(dividas)
      row == df[idx + 1]
      saldo_devedor == row.valor_total - row.valor_pago
  IN /\ HasLabel(df, idx)
     /\ IF valor_adicional >= 1 /\ valor_adicional <= saldo_devedor
          THEN /\ dividas' = update_divida(dividas, idx,
                                           row.valor_pago + valor_adicional)
               /\ last' = Call("update_divida", <<idx, valor_adicional>>, "ok", <<>>)
          ELSE /\ dividas' = dividas
               /\ last' = Call("update_divida", <<idx, valor_adicional>>,
                               "rejected", <<>>)
     /\ UNCHANGED <<entradas, saidas, header, sess>>
\* calcular_metricas writing the rows of the month back to entradas.csv
CalcularMetricas_salva(mes, ano) ==
  /\ last' = Call("calcular_metricas", <<mes, ano>>, "ok",
                  calcular_metricas(entradas, saidas, dividas, mes, ano))
  /\ entradas' = save_data(filter_by_month(load_data(entradas), mes, ano, "data"))
  /\ UNCHANGED <<saidas, dividas, header, sess>>

\* render_dashboard: calcular_metricas(mes, ano) is called
CalcularMetricas(mes, ano) ==
  /\ last' = IF MetricasRaises(entradas, saidas)
               THEN Call("calcular_metricas", <<mes, ano>>, "raise", <<>>)
               ELSE Call("calcular_metricas", <<mes, ano>>, "ok",
                         calcular_metricas(entradas, saidas, dividas, mes, ano))
  /\ UNCHANGED <<entradas, saidas, dividas, header, sess>>

EntradaActions ==
  \/ \E f \in EntradaForms : SubmitEntrada(f)
  \/ \E index \in Indices(entradas) : DeleteEntrada(index)

SaidaActions ==
  \/ \E f \in SaidaForms : SubmitSaida(f)
  \/ \E index \in Indices(saidas) : DeleteSaida(index)

DividaActions ==
  \/ \E f \in DividaForms : SubmitDivida(f)
  \/ \E index \in Indices(dividas) : DeleteDivida(index)
  \/ \E idx \in 0..MaxRecords, v \in Pagamentos : ConfirmarPagamento(idx, v)

SubmitActions ==
  \/ \E f \in EntradaForms : SubmitEntrada(f)
  \/ \E f \in SaidaForms : SubmitSaida(f)
  \/ \E f \in DividaForms : SubmitDivida(f)

MetricasActions ==
  \E mes \in Meses, ano \in Anos : CalcularMetricas(mes, ano)

\* the whole application
Next == EntradaActions \/ SaidaActions \/ DividaActions \/ MetricasActions

Spec == Init /\ [][Next]_vars

DeleteActions ==
  \/ \E index \in Indices(entradas) : DeleteEntrada(index)
  \/ \E index \in Indices(saidas) : DeleteSaida(index)
  \/ \E index \in Indices(dividas) : DeleteDivida(index)

\* adding to and deleting from the three ledgers
NextLedger == SubmitActions \/ DeleteActions

SpecLedger == Init /\ [][NextLedger]_vars

\* the debt page alone
SpecDividas == Init /\ [][DividaActions]_vars

\* the forms and the dashboard
NextMetricas == SubmitActions \/ MetricasActions

SpecMetricas == Init /\ [][NextMetricas]_vars

(***************************************************************************)
(* filter_by_month as a function of the rows it is given: the rows of      *)
(* entradas.csv are arbitrary, including cells no form of the application  *)
(* writes (an empty date, a date that is no calendar date).                *)
(***************************************************************************)
\* texts of the date column of a file found on disk
DateTexts == {strftime(d) : d \in Datas} \cup {<<>>, <<2024, 13, 45>>}

RowsOnDisk == [data : DateTexts, tipo : {"Salario"}, parceiro : {"Parceiro A"},
               valor : 1..MaxValor, descricao : {"Banco"}]

FilesOnDisk == UNION {[1..n -> RowsOnDisk] : n \in 0..MaxRecords}

InitFilter ==
  /\ entradas \in FilesOnDisk
  /\ saidas = <<>>
  /\ dividas = <<>>
  /\ last = Call("main", <<>>, "ok", <<>>)
  /\ header = Schema
  /\ sess = [c \in Callers |-> Idle]

\* filter_by_month(load_data(ENTRADAS_FILE), mes, ano) is called
FilterByMonth(mes, ano) ==
  LET df == load_data(entradas)
  IN /\ last' = IF DateRaises(df, "data")
                  THEN Call("filter_by_month", <<mes, ano>>, "raise", <<>>)
                  ELSE Call("filter_by_month", <<mes, ano>>, "ok",
                            filter_by_month(df, mes, ano, "data"))
     /\ UNCHANGED <<entradas, saidas, dividas, header, sess>>

NextFilter ==
  \/ \E mes \in Meses, ano \in Anos : FilterByMonth(mes, ano)
  \/ \E mes \in Meses, ano \in Anos : CalcularMetricas(mes, ano)

SpecFilter == InitFilter /\ [][NextFilter]_vars

(***************************************************************************)
(* Properties.  listX() of the specification is load_data of the file.     *)
(***************************************************************************)
\* new is old with row appended
IsAppend(old, new, row) ==
  /\ Len(new) = Len(old) + 1
  /\ \A j \in 1..Len(old) : new[j] = old[j]
  /\ new[Len(new)] = row

\* new is old without the row at 0-based position i
IsRemoval(old, new, i) ==
  /\ Len(new) = Len(old) - 1
  /\ \A j \in 0..(Len(new) - 1) : new[j + 1] = IF j < i THEN old[j + 1] ELSE old[j + 2]

\* the text YYYY-MM-DD of a date
YMD(d) == <<d.year, d.month, d.day>>

\* C1: every stored debt satisfies 0 <= paid_amount <= total_amount, in
\* every state reached by adding, paying and deleting debts.
C1_PaidWithinTotal ==
  \A i \in 1..Len(dividas) :
    /\ 0 <= load_data(dividas)[i].valor_pago
    /\ load_data(dividas)[i].valor_pago <= load_data(dividas)[i].valor_total

\* a payment has just brought a debt to exactly its total
C1_Witness ==
  /\ last.op = "update_divida" /\ last.outcome = "ok"
  /\ load_data(dividas)[last.arg[1] + 1].valor_pago
       = load_data(dividas)[last.arg[1] + 1].valor_total
  /\ last.arg[2] < load_data(dividas)[last.arg[1] + 1].valor_total

\* C2: an accepted addIncome / addExpense / addDebt leaves a collection
\* one longer, whose first n records are the previous ones in order and
\* whose last record, loaded back, carries exactly the supplied values
\* (the date as YYYY-MM-DD, the amounts unchanged).
C2_AddRoundTrips ==
  [][/\ (last'.op = "add_entrada" /\ last'.outcome = "ok")
          => IsAppend(load_data(entradas), load_data(entradas'),
                      [last'.arg EXCEPT !.data = YMD(@)])
     /\ (last'.op = "add_saida" /\ last'.outcome = "ok")
          => IsAppend(load_data(saidas), load_data(saidas'),
                      [last'.arg EXCEPT !.data = YMD(@)])
     /\ (last'.op = "add_divida" /\ last'.outcome = "ok")
          => IsAppend(load_data(dividas), load_data(dividas'),
                      [last'.arg EXCEPT !.data_inicio = YMD(@)])]_vars

\* C3: deleteX(i) for a valid position i leaves a collection one shorter:
\* positions below i are unchanged and the record previously at j+1 is at
\* j for every j >= i.
C3_DeleteShifts ==
  [][/\ (last'.op = "delete_entrada" /\ HasLabel(load_data(entradas), last'.arg))
          => IsRemoval(load_data(entradas), load_data(entradas'), last'.arg)
     /\ (last'.op = "delete_saida" /\ HasLabel(load_data(saidas), last'.arg))
          => IsRemoval(load_data(saidas), load_data(saidas'), last'.arg)
     /\ (last'.op = "delete_divida" /\ HasLabel(load_data(dividas), last'.arg))
          => IsRemoval(load_data(dividas), load_data(dividas'), last'.arg)]_vars

\* the first of two debts has just been deleted: the second is now first
C3_Witness ==
  /\ last.op = "delete_divida" /\ last.outcome = "ok"
  /\ last.arg = 0
  /\ Len(dividas) = 1

\* C4: deleteX with an index that is no valid position (at or past the
\* end, or negative) raises no error and leaves the stored collection
\* unchanged.
C4_InvalidIndexNoOp ==
  [][/\ (last'.op = "delete_entrada" /\ ~HasLabel(load_data(entradas), last'.arg))
          => (last'.outcome = "ok" /\ entradas' = entradas)
     /\ (last'.op = "delete_saida" /\ ~HasLabel(load_data(saidas), last'.arg))
          => (last'.outcome = "ok" /\ saidas' = saidas)
     /\ (last'.op = "delete_divida" /\ ~HasLabel(load_data(dividas), last'.arg))
          => (last'.outcome = "ok" /\ dividas' = dividas)]_vars

\* C5: addIncome / addExpense with amount <= 0 and addDebt with
\* total_amount <= 0, an empty creditor or paid_amount > total_amount are
\* rejected, and the stored collections are the same before and after.
C5_InvalidRejected ==
  [][/\ (last'.op \in {"add_entrada", "add_saida"} /\ last'.arg.valor <= 0)
          => (last'.outcome = "rejected"
              /\ UNCHANGED <<entradas, saidas, dividas>>)
     /\ (/\ last'.op = "add_divida"
         /\ \/ last'.arg.valor_total <= 0
            \/ last'.arg.credor = ""
            \/ last'.arg.valor_pago > last'.arg.valor_total)
          => (last'.outcome = "rejected"
              /\ UNCHANGED <<entradas, saidas, dividas>>)]_vars

\* a debt form paying more than its total has just been rejected, with a
\* debt already stored
C5_Witness ==
  /\ last.op = "add_divida" /\ last.outcome = "rejected"
  /\ last.arg.valor_pago > last.arg.valor_total
  /\ last.arg.valor_total > 0 /\ last.arg.credor # ""
  /\ dividas # <<>>

\* C6: payDebt(i, amt) with i a valid position and 0 < amt <=
\* outstanding_balance(i) increases the paid_amount of debt i by exactly
\* amt, changes no other field of debt i and no other debt, and leaves
\* paid_amount <= total_amount.
C6_PaymentAdds ==
  [][(/\ last'.op = "update_divida"
      /\ HasLabel(load_data(dividas), last'.arg[1])
      /\ 0 < last'.arg[2]
      /\ last'.arg[2] <= load_data(dividas)[last'.arg[1] + 1].valor_total
                           - load_data(dividas)[last'.arg[1] + 1].valor_pago)
       => (/\ last'.outcome = "ok"
           /\ load_data(dividas') =
                [load_data(dividas) EXCEPT ![last'.arg[1] + 1].valor_pago
                                             = @ + last'.arg[2]]
           /\ load_data(dividas')[last'.arg[1] + 1].valor_pago
                <= load_data(dividas')[last'.arg[1] + 1].valor_total)]_vars

\* the second of two debts has just received a partial payment
C6_Witness ==
  /\ last.op = "update_divida" /\ last.outcome = "ok"
  /\ last.arg[1] = 1
  /\ Len(dividas) = 2
  /\ load_data(dividas)[2].valor_pago = last.arg[2]
  /\ load_data(dividas)[2].valor_pago < load_data(dividas)[2].valor_total

\* C7: payDebt(i, amt) with amt greater than the outstanding balance of
\* debt i is rejected and the stored debts are left unchanged.
C7_OverpaymentRejected ==
  [][(/\ last'.op = "update_divida"
      /\ HasLabel(load_data(dividas), last'.arg[1])
      /\ last'.arg[2] > load_data(dividas)[last'.arg[1] + 1].valor_total
                          - load_data(dividas)[last'.arg[1] + 1].valor_pago)
       => (last'.outcome = "rejected" /\ dividas' = dividas)]_vars

\* a payment above the balance of a partly paid debt has just been rejected
C7_Witness ==
  /\ last.op = "update_divida" /\ last.outcome = "rejected"
  /\ load_data(dividas)[last.arg[1] + 1].valor_pago > 0
  /\ load_data(dividas)[last.arg[1] + 1].valor_pago
       < load_data(dividas)[last.arg[1] + 1].valor_total
  /\ last.arg[2] > load_data(dividas)[last.arg[1] + 1].valor_total
                     - load_data(dividas)[last.arg[1] + 1].valor_pago

\* sum of the valor cells of the rows of file at the positions in I
RECURSIVE SumAt(_, _)
SumAt(file, I) ==
  IF I = {}
    THEN 0
    ELSE LET i == CHOOSE i \in I : TRUE
         IN file[i].valor + SumAt(file, I \ {i})

\* positions of the rows of file whose date text lies in month mes of ano
DatedIn(file, mes, ano) ==
  {i \in 1..Len(file) :
     Len(file[i].data) = 3 /\ file[i].data[1] = ano /\ file[i].data[2] = mes}

\* C8: computeMetrics(month, year) returns totalIncome equal to the sum
\* of amount over exactly the income records dated in that month and year
\* (0 if none), totalExpense likewise over the expense records, and
\* balance = totalIncome - totalExpense, which may be negative.
C8_TotalsByMonth ==
  last.op = "calcular_metricas"
    => /\ last.outcome = "ok"
       /\ last.result.total_entradas
            = SumAt(entradas, DatedIn(entradas, last.arg[1], last.arg[2]))
       /\ last.result.total_saidas
            = SumAt(saidas, DatedIn(saidas, last.arg[1], last.arg[2]))
       /\ last.result.saldo
            = SumAt(entradas, DatedIn(entradas, last.arg[1], last.arg[2]))
              - SumAt(saidas, DatedIn(saidas, last.arg[1], last.arg[2]))

\* the metrics of a month with an expense and no income, while an income
\* of another month is stored: the balance is negative
C8_Witness ==
  /\ last.op = "calcular_metricas" /\ last.outcome = "ok"
  /\ entradas # <<>>
  /\ last.result.total_entradas = 0
  /\ last.result.total_saidas > 0
  /\ last.result.saldo < 0

\* C9: filterByMonth returns exactly the records dated in the month and
\* year, in their original order; a record whose date is missing or
\* unparsable is excluded and makes neither the call nor computeMetrics
\* fail.
C9_FilterExcludesBadDates ==
  /\ last.op = "filter_by_month"
       => /\ last.outcome = "ok"
          /\ last.result
               = SelectSeq(load_data(entradas),
                           LAMBDA r : /\ Len(r.data) = 3
                                      /\ r.data[1] = last.arg[2]
                                      /\ r.data[2] = last.arg[1])
  /\ last.op = "calcular_metricas" => last.outcome = "ok"

\* the four debt aggregates of a metrics result
DebtPart(r) == <<r.total_dividas_acordo, r.qtd_dividas_acordo,
                 r.total_dividas_negativadas, r.qtd_dividas_negativadas>>

\* C10: with the stored debts unchanged, computeMetrics returns the same
\* four debt aggregates for every (month, year), whatever the debts'
\* start dates and whatever the income and expense records are.
C10_DebtAggregatesIgnoreMonth ==
  \A m1 \in Meses, y1 \in Anos, m2 \in Meses, y2 \in Anos :
    /\ DebtPart(calcular_metricas(entradas, saidas, dividas, m1, y1))
         = DebtPart(calcular_metricas(<<>>, <<>>, dividas, m2, y2))
    /\ last.op = "calcular_metricas"
         => DebtPart(last.result)
              = DebtPart(calcular_metricas(<<>>, <<>>, dividas, m2, y2))

\* the metrics of a month in which a stored, unpaid debt did not start,
\* with an income stored
C10_Witness ==
  /\ last.op = "calcular_metricas" /\ last.outcome = "ok"
  /\ entradas # <<>>
  /\ Len(dividas) = 1
  /\ dividas[1].data_inicio[2] # last.arg[1]
  /\ last.result.qtd_dividas_acordo = 1
  /\ last.result.total_dividas_acordo > 0

\* sum of valor_total - valor_pago of the rows of file at the positions in I
RECURSIVE OutstandingAt(_, _)
OutstandingAt(file, I) ==
  IF I = {}
    THEN 0
    ELSE LET i == CHOOSE i \in I : TRUE
         IN (file[i].valor_total - file[i].valor_pago)
              + OutstandingAt(file, I \ {i})

\* positions of the debts of a status
WithStatus(file, status) == {i \in 1..Len(file) : file[i].status = status}

\* C11: computeMetrics returns outstandingInAgreement equal to the sum of
\* total_amount - paid_amount over all stored debts with status
\* InAgreement (0 if none) and countInAgreement equal to their number;
\* the same holds for status Delinquent.
C11_DebtAggregates ==
  last.op = "calcular_metricas"
    => /\ last.result.total_dividas_acordo
            = OutstandingAt(dividas, WithStatus(dividas, "Em acordo"))
       /\ last.result.qtd_dividas_acordo
            = Cardinality(WithStatus(dividas, "Em acordo"))
       /\ last.result.total_dividas_negativadas
            = OutstandingAt(dividas, WithStatus(dividas, "Negativada"))
       /\ last.result.qtd_dividas_negativadas
            = Cardinality(WithStatus(dividas, "Negativada"))

\* the metrics of a store holding one debt of each status
C11_Witness ==
  /\ last.op = "calcular_metricas" /\ last.outcome = "ok"
  /\ last.result.qtd_dividas_acordo = 1
  /\ last.result.qtd_dividas_negativadas = 1
  /\ last.result.total_dividas_negativadas > 0

(***************************************************************************)
(* The read operations: the listings of the three pages, the dashboard     *)
(* and filter_by_month.                                                    *)
(***************************************************************************)
\* render_entradas / render_saidas / render_dividas: the listing is loaded
ListEntradas ==
  /\ last' = Call("load_data", "entradas", "ok", load_data(entradas))
  /\ UNCHANGED <<entradas, saidas, dividas, header, sess>>

ListSaidas ==
  /\ last' = Call("load_data", "saidas", "ok", load_data(saidas))
  /\ UNCHANGED <<entradas, saidas, dividas, header, sess>>

ListDividas ==
  /\ last' = Call("load_data", "dividas", "ok", load_data(dividas))
  /\ UNCHANGED <<entradas, saidas, dividas, header, sess>>

ReadActions ==
  \/ ListEntradas
  \/ ListSaidas
  \/ ListDividas
  \/ \E mes \in Meses, ano \in Anos : FilterByMonth(mes, ano)
  \/ \E mes \in Meses, ano \in Anos : CalcularMetricas(mes, ano)

NextRead == SubmitActions \/ ReadActions

\* the forms and every read operation
SpecRead == Init /\ [][NextRead]_vars

\* C12: computeMetrics, listIncomes, listExpenses, listDebts and
\* filterByMonth never change persisted state: after any of them each of
\* the three stored collections holds exactly the records it held before,
\* in the same order.
C12_ReadsChangeNothing ==
  [][last'.op \in {"load_data", "filter_by_month", "calcular_metricas"}
       => /\ entradas' = entradas
          /\ saidas' = saidas
          /\ dividas' = dividas
          /\ header' = header]_vars

\* the metrics of a month that holds none of the stored incomes
C12_Witness ==
  /\ last.op = "calcular_metricas" /\ last.outcome = "ok"
  /\ entradas # <<>>
  /\ last.result.total_entradas = 0

(***************************************************************************)
(* init_csv_files, run on a data directory in which each file is absent    *)
(* or present with some rows.                                              *)
(***************************************************************************)
\* pd.DataFrame(columns=...).to_csv(file, index=False): a header, no rows
create_csv(columns) == [header |-> columns, rows |-> <<>>]

\* one `if not FILE.exists()` block, the file written whether it exists or not
init_file_sempre(h, rows, columns) == create_csv(columns)

\* one `if not FILE.exists()` block of init_csv_files
init_file(h, rows, columns) ==
  IF h = <<>> THEN create_csv(columns) ELSE [header |-> h, rows |-> rows]

\* main: init_csv_files is called
InitCsvFiles ==
  LET e == init_file(header.entradas, entradas, Schema.entradas)
      s == init_file(header.saidas, saidas, Schema.saidas)
      d == init_file(header.dividas, dividas, Schema.dividas)
  IN /\ entradas' = e.rows
     /\ saidas' = s.rows
     /\ dividas' = d.rows
     /\ header' = [entradas |-> e.header, saidas |-> s.header,
                   dividas |-> d.header]
     /\ last' = Call("init_csv_files",
                     {f \in DOMAIN header : header[f] = <<>>}, "ok", <<>>)
     /\ UNCHANGED sess

\* data directories: a file that is absent has no rows
InitDir ==
  /\ header \in [{"entradas", "saidas", "dividas"} -> {<<>>} \cup
                   {Schema[f] : f \in {"entradas", "saidas", "dividas"}}]
  /\ \A f \in DOMAIN header : header[f] \in {<<>>, Schema[f]}
  /\ entradas \in FilesOnDisk
  /\ saidas \in {<<>>, add_saida(<<>>, BaseSaida.data, BaseSaida.categoria,
                                 BaseSaida.valor, BaseSaida.descricao)}
  /\ dividas \in {<<>>, add_divida(<<>>, BaseDivida.credor,
                                   BaseDivida.valor_total, BaseDivida.valor_pago,
                                   BaseDivida.status, BaseDivida.data_inicio,
                                   BaseDivida.descricao)}
  /\ header.entradas = <<>> => entradas = <<>>
  /\ header.saidas = <<>> => saidas = <<>>
  /\ header.dividas = <<>> => dividas = <<>>
  /\ last = Call("main", <<>>, "ok", <<>>)
  /\ sess = [c \in Callers |-> Idle]

SpecInit == InitDir /\ [][InitCsvFiles]_vars

\* C13: initialize never overwrites data and is idempotent: a file that
\* exists keeps its contents, a file that does not exist is created empty
\* with the column schema of its kind, and initializing again changes
\* nothing.
C13_InitializeIdempotent ==
  [][last'.op = "init_csv_files"
       => /\ header.entradas # <<>>
               => (entradas' = entradas /\ header'.entradas = header.entradas)
          /\ header.saidas # <<>>
               => (saidas' = saidas /\ header'.saidas = header.saidas)
          /\ header.dividas # <<>>
               => (dividas' = dividas /\ header'.dividas = header.dividas)
          /\ header.entradas = <<>>
               => (entradas' = <<>> /\ header'.entradas
                     = <<"data", "tipo", "parceiro", "valor", "descricao">>)
          /\ header.saidas = <<>>
               => (saidas' = <<>> /\ header'.saidas
                     = <<"data", "categoria", "valor", "descricao">>)
          /\ header.dividas = <<>>
               => (dividas' = <<>> /\ header'.dividas
                     = <<"credor", "valor_total", "valor_pago", "status",
                         "data_inicio", "descricao">>)
          /\ init_file(header'.entradas, entradas', Schema.entradas)
               = [header |-> header'.entradas, rows |-> entradas']
          /\ init_file(header'.saidas, saidas', Schema.saidas)
               = [header |-> header'.saidas, rows |-> saidas']
          /\ init_file(header'.dividas, dividas', Schema.dividas)
               = [header |-> header'.dividas, rows |-> dividas']]_vars

\* initialize has just created saidas.csv next to a non-empty entradas.csv,
\* which it kept
C13_Witness ==
  /\ last.op = "init_csv_files"
  /\ "saidas" \in last.arg /\ "entradas" \notin last.arg
  /\ entradas # <<>>
  /\ saidas = <<>> /\ header.saidas = Schema.saidas

\* positions among I of the income rows of file that have the key k
WithKey(file, I, k) ==
  {i \in I : <<file[i].tipo, " - ", file[i].parceiro>> = k}

\* the least element of a non-empty set of positions
First(I) == CHOOSE i \in I : \A j \in I : i <= j

\* C15: incomeBySource returned by computeMetrics has exactly one key
\* "{source_type} - {partner}" for each distinct pair among the income
\* records of the month, its value is the sum of their amounts, and the keys
\* are in the order in which their first record occurs in storage.
C15_IncomeBySource ==
  last.op = "calcular_metricas"
    => LET I == DatedIn(entradas, last.arg[1], last.arg[2])
           p == last.result.entradas_por_tipo
       IN /\ \A i, j \in 1..Len(p) : i # j => p[i][1] # p[j][1]
          /\ {p[i][1] : i \in 1..Len(p)}
               = {<<entradas[k].tipo, " - ", entradas[k].parceiro>> : k \in I}
          /\ \A i \in 1..Len(p) :
               p[i][2] = SumAt(entradas, WithKey(entradas, I, p[i][1]))
          /\ \A i, j \in 1..Len(p) :
               i < j => First(WithKey(entradas, I, p[i][1]))
                          < First(WithKey(entradas, I, p[j][1]))

\* the metrics of a month with two incomes of different sources, the one
\* stored first not being the form's default source
C15_Witness ==
  /\ last.op = "calcular_metricas"
  /\ Len(last.result.entradas_por_tipo) = 2
  /\ last.result.entradas_por_tipo[1][1] # SourceKey(BaseEntrada)
  /\ last.result.entradas_por_tipo[2][1] = SourceKey(BaseEntrada)

\* positions among I of the expense rows of file that have category c
WithCategoria(file, I, c) == {i \in I : file[i].categoria = c}

\* C16: expenseByCategory returned by computeMetrics has as keys exactly
\* the categories that occur among the expense records of the month (none
\* zero-filled, empty when the month has no expenses), each with the sum of
\* the amounts of its records in that month.
C16_ExpenseByCategory ==
  last.op = "calcular_metricas"
    => LET I == DatedIn(saidas, last.arg[1], last.arg[2])
           p == last.result.saidas_por_categoria
       IN /\ DOMAIN p = {saidas[k].categoria : k \in I}
          /\ \A c \in DOMAIN p :
               p[c] = SumAt(saidas, WithCategoria(saidas, I, c))
          /\ I = {} => p = <<>>

\* the metrics of a month with two expenses of one category and none of
\* the other: the mapping has the one key, with the sum of both
C16_Witness ==
  /\ last.op = "calcular_metricas"
  /\ Len(saidas) = 2
  /\ DOMAIN last.result.saidas_por_categoria = {"Alimentacao"}
  /\ last.result.saidas_por_categoria["Alimentacao"]
       = saidas[1].valor + saidas[2].valor

(***************************************************************************)
(* Two sessions on entradas.csv.  Each ledger function is two steps, its   *)
(* load_data and the rest up to its save_data, and the script threads of   *)
(* the sessions take these steps in any order.                             *)
(***************************************************************************)
\* form_entrada with the amount varied
RaceForms == {[BaseEntrada EXCEPT !.valor = v] : v \in 1..MaxValor}

\* add_entrada's nova_entrada for a form
nova_entrada(f) ==
  [data |-> strftime(f.data), tipo |-> f.tipo, parceiro |-> f.parceiro,
   valor |-> f.valor, descricao |-> f.descricao]

\* the session's position after `df = load_data(ENTRADAS_FILE)`
Loaded(op, arg, df) == [pc |-> "loaded", op |-> op, arg |-> arg, df |-> df]

\* the rest of the function, with the file read again before it is changed
write_back_recarrega(file, s) ==
  IF s.op = "add_entrada"
    THEN save_data(Append(load_data(file), nova_entrada(s.arg)))
    ELSE IF s.arg < Len(load_data(file))
           THEN save_data(drop(load_data(file), s.arg))
           ELSE file

\* the rest of add_entrada or delete_entrada after its load_data: the file
\* it leaves, given the file it finds and the DataFrame it holds
write_back(file, s) ==
  IF s.op = "add_entrada"
    THEN save_data(Append(s.df, nova_entrada(s.arg)))
    ELSE IF s.arg < Len(s.df)
           THEN save_data(drop(s.df, s.arg))
           ELSE file

\* add_entrada(form) is entered by session c and loads the file
LoadForAdd(c, f) ==
  /\ sess[c].pc = "idle"
  /\ Len(entradas) < MaxRecords
  /\ sess' = [sess EXCEPT ![c] = Loaded("add_entrada", f, load_data(entradas))]
  /\ UNCHANGED <<entradas, saidas, dividas, last, header>>

\* delete_entrada(index) is entered by session c and loads the file
LoadForDelete(c, index) ==
  /\ sess[c].pc = "idle"
  /\ sess' = [sess EXCEPT ![c] = Loaded("delete_entrada", index,
                                        load_data(entradas))]
  /\ UNCHANGED <<entradas, saidas, dividas, last, header>>

\* session c runs the function to its end
WriteBack(c) ==
  /\ sess[c].pc = "loaded"
  /\ entradas' = write_back(entradas, sess[c])
  /\ last' = Call(sess[c].op, sess[c].arg, "ok", c)
  /\ sess' = [sess EXCEPT ![c].pc = "saved"]
  /\ UNCHANGED <<saidas, dividas, header>>

\* st.rerun() of session c
Rerun(c) ==
  /\ sess[c].pc = "saved"
  /\ sess' = [sess EXCEPT ![c] = Idle]
  /\ UNCHANGED <<entradas, saidas, dividas, last, header>>

NextRace ==
  \/ \E c \in Callers, f \in RaceForms : LoadForAdd(c, f)
  \/ \E c \in Callers, index \in 0..Len(entradas) : LoadForDelete(c, index)
  \/ \E c \in Callers : WriteBack(c)
  \/ \E c \in Callers : Rerun(c)

SpecRace == Init /\ [][NextRace]_vars

\* C14: when two mutations of one kind interleave so that both load before
\* either saves, the stored collection is the result of the later save
\* only and no error is reported: two interleaved adds on a collection of
\* size n leave n+1 records, the old ones and the later writer's.
C14_LastWriterWins ==
  [][\A c, d \in Callers :
       (/\ c # d
        /\ sess[c].pc = "loaded" /\ sess'[c].pc = "saved"
        /\ sess[d].pc = "saved" /\ sess[d].df = sess[c].df)
         => /\ last'.outcome = "ok"
            /\ sess[c].op = "add_entrada"
                 => IsAppend(sess[c].df, load_data(entradas'),
                             [data |-> YMD(sess[c].arg.data),
                              tipo |-> sess[c].arg.tipo,
                              parceiro |-> sess[c].arg.parceiro,
                              valor |-> sess[c].arg.valor,
                              descricao |-> sess[c].arg.descricao])
            /\ (sess[c].op = "delete_entrada" /\ sess[c].arg < Len(sess[c].df))
                 => IsRemoval(sess[c].df, load_data(entradas'), sess[c].arg)]_vars

\* both sessions loaded the same one-record file and added different
\* amounts; the file holds two records, the second the later writer's
C14_Witness ==
  /\ sess["A"].pc = "saved" /\ sess["B"].pc = "saved"
  /\ sess["A"].op = "add_entrada" /\ sess["B"].op = "add_entrada"
  /\ sess["A"].df = sess["B"].df /\ Len(sess["A"].df) = 1
  /\ sess["A"].arg.valor # sess["B"].arg.valor
  /\ last.result = "B"
  /\ Len(entradas) = 2 /\ entradas[2].valor = sess["B"].arg.valor

(***************************************************************************)
(* Sessions that hold a listing of entradas.csv.  A click on the delete    *)
(* button of a row reruns the script of its session: the listing is        *)
(* rendered from the file as it is then, and the button with the key of    *)
(* the clicked one, del_entrada_{idx}, calls delete_entrada(idx).          *)
(***************************************************************************)
\* the session's position with a listing on its page
Listed(df) == [pc |-> "listed", df |-> df]

\* render_entradas of session c: the listing is rendered
RenderEntradas(c) ==
  /\ sess' = [sess EXCEPT ![c] = Listed(load_data(entradas))]
  /\ UNCHANGED <<entradas, saidas, dividas, last, header>>

\* the positions of df that hold the record row
PositionsOf(df, row) == {i \in 0..(Len(df) - 1) : df[i + 1] = row}

\* a click that removes the record shown on the clicked row, if it is
\* still stored, wherever it now is
ClickDelete_registro(c, idx) ==
  /\ sess[c].pc = "listed"
  /\ idx \in 0..(Len(sess[c].df) - 1)
  /\ LET df == load_data(entradas)
         at == PositionsOf(df, sess[c].df[idx + 1])
         r == IF at # {}
                THEN delete_entrada(entradas, CHOOSE i \in at : TRUE)
                ELSE [file |-> entradas, outcome |-> "ok"]
     IN /\ entradas' = r.file
        /\ last' = Call("del_entrada", <<c, idx>>, r.outcome,
                        [seen |-> sess[c].df, found |-> df])
        /\ sess' = [sess EXCEPT ![c] = Listed(load_data(r.file))]
  /\ UNCHANGED <<saidas, dividas, header>>

\* session c clicks the delete button of row idx of its listing
ClickDelete(c, idx) ==
  /\ sess[c].pc = "listed"
  /\ idx \in 0..(Len(sess[c].df) - 1)
  /\ LET df == load_data(entradas)
         r == IF idx < Len(df)
                THEN delete_entrada(entradas, idx)
                ELSE [file |-> entradas, outcome |-> "ok"]
     IN /\ entradas' = r.file
        /\ last' = Call("del_entrada", <<c, idx>>, r.outcome,
                        [seen |-> sess[c].df, found |-> df])
        /\ sess' = [sess EXCEPT ![c] = Listed(load_data(r.file))]
  /\ UNCHANGED <<saidas, dividas, header>>

NextStale ==
  \/ \E f \in RaceForms : SubmitEntrada(f)
  \/ \E c \in Callers : RenderEntradas(c)
  \/ \E c \in Callers, idx \in 0..(MaxRecords - 1) : ClickDelete(c, idx)

SpecStale == Init /\ [][NextStale]_vars

\* session c clicks row idx of a listing from which one record at a lower
\* or equal position has since been deleted
StaleClick(c, idx) ==
  /\ sess[c].pc = "listed"
  /\ idx \in 0..(Len(sess[c].df) - 1)
  /\ last'.op = "del_entrada" /\ last'.arg = <<c, idx>>
  /\ \E j \in 0..idx : IsRemoval(sess[c].df, load_data(entradas), j)

\* C17: if caller A lists a collection, caller B then deletes a record at
\* a lower or equal position, and A then calls deleteX with the index it
\* read, the call either removes the record A saw at that index or leaves
\* storage unchanged; it never removes a different record.
C17_StaleDeleteRemovesSeen ==
  [][\A c \in Callers, idx \in 0..(MaxRecords - 1) :
       StaleClick(c, idx)
         => \/ entradas' = entradas
            \/ \E k \in 0..(Len(entradas) - 1) :
                 /\ IsRemoval(load_data(entradas), load_data(entradas'), k)
                 /\ load_data(entradas)[k + 1] = sess[c].df[idx + 1]]_vars

\* C17 (amended): in that case the call removes the record that is at that
\* index when it is called, which is the record that followed the seen one
\* in A's listing, or leaves storage unchanged if the index is no longer a
\* position of the collection; it raises no error.
C17_StaleDeleteByPosition ==
  [][\A c \in Callers, idx \in 0..(MaxRecords - 1) :
       StaleClick(c, idx)
         => /\ last'.outcome = "ok"
            /\ IF idx < Len(entradas)
                 THEN /\ IsRemoval(load_data(entradas), load_data(entradas'), idx)
                      /\ load_data(entradas)[idx + 1] = sess[c].df[idx + 2]
                 ELSE entradas' = entradas]_vars

\* a click on row 0 of a listing of two different records, after the
\* first was deleted by the other session: the second record is gone
C17_Witness ==
  /\ last.op = "del_entrada" /\ last.arg[2] = 0
  /\ Len(last.result.seen) = 2
  /\ last.result.seen[1] # last.result.seen[2]
  /\ IsRemoval(last.result.seen, last.result.found, 0)
  /\ entradas = <<>>

(***************************************************************************)
(* Sessions on dividas.csv.  The script run that confirms a payment reads  *)
(* the listing (render_dividas, load_data) and later writes with           *)
(* update_divida, which loads the file again; calls of other sessions      *)
(* complete in between.  Session A is followed step by step, the calls of  *)
(* the other session are taken whole.                                      *)
(***************************************************************************)
\* the session's position at the call of update_divida(idx, novo_valor_pago)
Confirmed(idx, df, novo_valor_pago) ==
  [pc |-> "confirmed", idx |-> idx, df |-> df,
   novo_valor_pago |-> novo_valor_pago]

\* render_dividas of session c up to the call of update_divida: the listing
\* is loaded and form_pag_{idx} is confirmed with an amount that its
\* number_input accepts for the row read
ReadForPayment(c, idx, valor_adicional) ==
  LET df == load_data(dividas)
      row == df[idx + 1]
      saldo_devedor == row.valor_total - row.valor_pago
  IN /\ sess[c].pc = "idle"
     /\ HasLabel(df, idx)
     /\ valor_adicional >= 1 /\ valor_adicional <= saldo_devedor
     /\ sess' = [sess EXCEPT ![c] =
                   Confirmed(idx, df, row.valor_pago + valor_adicional)]
     /\ UNCHANGED <<entradas, saidas, dividas, last, header>>

\* update_divida(idx, novo_valor_pago) of session c
WritePayment(c) ==
  /\ sess[c].pc = "confirmed"
  /\ dividas' = update_divida(dividas, sess[c].idx, sess[c].novo_valor_pago)
  /\ last' = Call("update_divida", <<sess[c].idx, sess[c].novo_valor_pago>>,
                  "ok", [caller |-> c, seen |-> sess[c].df,
                         found |-> load_data(dividas)])
  /\ sess' = [sess EXCEPT ![c] = Idle]
  /\ UNCHANGED <<entradas, saidas, header>>

\* form_divida with the total varied
PaymentForms == {[BaseDivida EXCEPT !.valor_total = v] : v \in 1..MaxValor}

NextPayment ==
  \/ \E f \in PaymentForms : SubmitDivida(f)
  \/ \E idx \in 0..(MaxRecords - 1), v \in Pagamentos :
       ReadForPayment("A", idx, v)
  \/ WritePayment("A")
  \/ \E index \in 0..(MaxRecords - 1) : DeleteDivida(index)
  \/ \E idx \in 0..(MaxRecords - 1), v \in Pagamentos : ConfirmarPagamento(idx, v)

SpecPayment == Init /\ [][NextPayment]_vars

\* found is seen without one of its debts
DeletedBetween(seen, found) ==
  \E j \in 0..(Len(seen) - 1) : IsRemoval(seen, found, j)

\* found is seen with a payment added to one of its debts
PaidBetween(seen, found) ==
  /\ Len(found) = Len(seen)
  /\ \E j \in 1..Len(seen) :
       /\ found[j].valor_pago > seen[j].valor_pago
       /\ found = [seen EXCEPT ![j].valor_pago = found[j].valor_pago]

\* C18: when a deleteDebt or payDebt of another caller completes between
\* caller A's read of debt i and A's payDebt write for index i, A's amount
\* being within the balance A read, every stored debt still has
\* paid_amount <= total_amount after A's write.
C18_PaidWithinTotalAfterRace ==
  (/\ last.op = "update_divida" /\ last.result # <<>>
   /\ \/ DeletedBetween(last.result.seen, last.result.found)
      \/ PaidBetween(last.result.seen, last.result.found))
    => \A i \in 1..Len(dividas) :
         dividas[i].valor_pago <= dividas[i].valor_total

\* every record of old is in new as it was, new having at most one record
\* more (at the end) or one less
RecordsKept(old, new) ==
  \/ new = old
  \/ IsAppend(old, new, new[Len(new)])
  \/ \E i \in 0..(Len(old) - 1) : IsRemoval(old, new, i)

\* the same for debts, or every debt is in its place with all its fields
\* but valor_pago as they were and valor_pago not lower
DebtsKept(old, new) ==
  \/ RecordsKept(old, new)
  \/ /\ Len(new) = Len(old)
     /\ \A j \in 1..Len(old) :
          /\ new[j] = [old[j] EXCEPT !.valor_pago = new[j].valor_pago]
          /\ new[j].valor_pago >= old[j].valor_pago

\* C19: across any sequence of operations of a single caller a stored
\* record changes only in the supported way: an income or expense record is
\* never modified between its add and its delete, and a debt record keeps
\* every field except paid_amount, which never decreases.
C19_RecordsChangeOnlyAsSupported ==
  [][/\ RecordsKept(entradas, entradas')
     /\ RecordsKept(saidas, saidas')
     /\ DebtsKept(dividas, dividas')]_vars
====
